---- MODULE Spec2Model ----
(***************************************************************************)
(* A model of twmtg/populate.py: the checksum-cached download of the       *)
(* MTGJSON asset (http_get_path_cached_checksummed), its decompression     *)
(* (mtgjson_sqlite_path) and the classification pass over the cards table  *)
(* (main).  Files of the cache directory are state; every file operation   *)
(* of the code is one step, so that a run can fail or be killed between    *)
(* any two of them.                                                        *)
(***************************************************************************)
EXTENDS Integers, Sequences, FiniteSets, TLC

\* ---------------------------------------------------------------- bounds
\* Number of chunks the asset body is streamed in.
NChunks == 2
\* Number of rows of the cards table of a snapshot.
NCards == 2
\* Number of runs of the pipeline a behaviour holds.
MaxRuns == 2
\* Number of upserts applied in a row to one table.
MaxUpserts == 3
\* Number of pieces (characters, or a whole filter phrase) a card text is
\* put together from.
MaxPieces == 5
\* Number of characters of a URL.
MaxUrlLen == 2

\* ------------------------------------------------------ program constants
TWENTY == 20

\* One filter phrase, as in the source; the phrase is shortened to three
\* characters with an inner space ("F G").
FILTER_STRINGS == << <<"F", " ", "G">> >>

\* ------------------------------------------------------------- text model
\* Python's None, for an Optional[str].
None == "None"

\* Characters matched by the regular expression class \s (and stripped by
\* str.strip()).
IsSpace(c) == c \in {" ", "\n", "\t"}

\* TRUE iff pattern p occurs in s starting at index i.
MatchAt(s, p, i) ==
    /\ i + Len(p) - 1 <= Len(s)
    /\ \A k \in 1..Len(p) : s[i + k - 1] = p[k]

\* str.replace(p, r) / SQL replace(s, p, r) for a non-empty pattern:
\* non-overlapping occurrences, left to right.
RECURSIVE ReplaceFrom(_, _, _, _)
ReplaceFrom(s, p, r, i) ==
    IF i > Len(s) THEN <<>>
    ELSE IF MatchAt(s, p, i) THEN r \o ReplaceFrom(s, p, r, i + Len(p))
    ELSE <<s[i]>> \o ReplaceFrom(s, p, r, i + 1)

Replace(s, p, r) == ReplaceFrom(s, p, r, 1)

\* A nullable text column: SQL NULL (Python None), or a string.
Null == [null |-> TRUE]

Text(s) == [null |-> FALSE, str |-> s]

\* "select uuid, replace(text, '\\n', ' ') as text from cards": the SQL
\* literal is the two characters backslash, n; replace(NULL, ..) is NULL.
SqlText(text) ==
    IF text.null THEN Null ELSE Text(Replace(text.str, <<"\\", "n">>, <<" ">>))

\* Index of the first ")" at or after i, 0 when there is none.
RECURSIVE NextClose(_, _)
NextClose(s, i) ==
    IF i > Len(s) THEN 0
    ELSE IF s[i] = ")" THEN i
    ELSE NextClose(s, i + 1)

\* re.sub(r"\([^\)]+\)", "", s): a match starts at a "(" and runs to the
\* first ")" after it, with at least one character in between.
RECURSIVE RemoveReminderFrom(_, _)
RemoveReminderFrom(s, i) ==
    IF i > Len(s) THEN <<>>
    ELSE IF s[i] = "(" /\ NextClose(s, i + 1) > i + 1
         THEN RemoveReminderFrom(s, NextClose(s, i + 1) + 1)
    ELSE <<s[i]>> \o RemoveReminderFrom(s, i + 1)

RemoveReminder(s) == RemoveReminderFrom(s, 1)

\* str.strip(): leading and trailing whitespace removed.
RECURSIVE LStrip(_)
LStrip(s) ==
    IF s # <<>> /\ IsSpace(Head(s)) THEN LStrip(Tail(s)) ELSE s

RECURSIVE RStrip(_)
RStrip(s) ==
    IF s # <<>> /\ IsSpace(s[Len(s)]) THEN RStrip(SubSeq(s, 1, Len(s) - 1)) ELSE s

Strip(s) == RStrip(LStrip(s))

\* re.sub(r"\s+", " ", s): every maximal whitespace run becomes one space.
RECURSIVE CollapseFrom(_, _)
CollapseFrom(s, i) ==
    IF i > Len(s) THEN <<>>
    ELSE IF IsSpace(s[i])
         THEN IF i > 1 /\ IsSpace(s[i - 1]) THEN CollapseFrom(s, i + 1)
              ELSE <<" ">> \o CollapseFrom(s, i + 1)
    ELSE <<s[i]>> \o CollapseFrom(s, i + 1)

CollapseSpace(s) == CollapseFrom(s, 1)

\* text_rm_reminder_text
TextRmReminderText(text) == CollapseSpace(Strip(RemoveReminder(text)))

\* functools.reduce(lambda t, fs: t.replace(fs, ""), FILTER_STRINGS, t)
RECURSIVE ReduceFilters(_, _)
ReduceFilters(t, k) ==
    IF k > Len(FILTER_STRINGS) THEN t
    ELSE ReduceFilters(Replace(t, FILTER_STRINGS[k], <<>>), k + 1)

\* text_filtered
TextFiltered(text) == Strip(ReduceFilters(TextRmReminderText(text), 1))

\* len(s.split(" ")): one more than the number of single spaces.
RECURSIVE CountSpaces(_)
CountSpaces(s) ==
    IF s = <<>> THEN 0
    ELSE (IF Head(s) = " " THEN 1 ELSE 0) + CountSpaces(Tail(s))

\* Mutant of NumWords: the separators are counted, not the tokens.
NumWordsSeparators(s) == CountSpaces(s)

NumWords(s) == CountSpaces(s) + 1

\* Mutant of Truthy: "if text is not None:".
TruthyNotNone(text) == ~text.null

\* Python truthiness of the row's text ("if text:").
Truthy(text) == ~text.null /\ text.str # <<>>

\* Mutant of ClassifiedRow: "legal = num_words < TWENTY".
ClassifiedRowStrict(uuid, text) ==
    LET tf == TextFiltered(text.str)
        n  == NumWords(tf)
    IN  [card_uuid |-> uuid, legal |-> (n < TWENTY),
         legality_checked_text |-> tf, num_words |-> n]

\* The tuple bound to the insert statement for one row of the cursor.
ClassifiedRow(uuid, text) ==
    LET tf == TextFiltered(text.str)
        n  == NumWords(tf)
    IN  [card_uuid |-> uuid, legal |-> (n <= TWENTY),
         legality_checked_text |-> tf, num_words |-> n]

\* Mutant of Upsert: "insert or ignore", a row that exists is kept.
UpsertIgnore(tw, row) ==
    IF \E r \in tw : r.card_uuid = row.card_uuid THEN tw ELSE tw \cup {row}

\* Mutant of Upsert: "do update set" leaves legality_checked_text out.
UpsertKeepsText(tw, row) ==
    IF \E r \in tw : r.card_uuid = row.card_uuid
    THEN {IF r.card_uuid = row.card_uuid
          THEN [r EXCEPT !.legal = row.legal, !.num_words = row.num_words]
          ELSE r : r \in tw}
    ELSE tw \cup {row}

\* "insert ... on conflict (card_uuid) do update set ...": the row of the
\* same card_uuid, if any, is overwritten.
Upsert(tw, row) ==
    {r \in tw : r.card_uuid # row.card_uuid} \cup {row}

\* ------------------------------------------------------------ environment
\* Values the checksum endpoint can answer with; the body may be empty.
Checksums == {"", "c1", "c2"}

\* HTTP status codes the two endpoints answer with.
StatusCodes == {200, 503}

\* Body of an error response.
ErrorText == "Service Unavailable"

\* cs_res.text for a response of the checksum endpoint.
ChecksumResponse(status, c) == IF status = 200 THEN c ELSE ErrorText

\* The compressed asset published under checksum c, as the chunks
\* aiter_bytes() yields.
Body(c) == [k \in 1..NChunks |-> <<c, k>>]

\* Bytes the asset endpoint streams for a response with this status.
ResponseBody(status, c) ==
    IF status = 200 THEN Body(c) ELSE << <<ErrorText, 1>> >>

\* Texts a row of the cards table can hold: NULL, the empty string, a
\* word with reminder text, and a text of TWENTY + 1 words.
ManyWords == [k \in 1..(2 * TWENTY + 1) |-> IF k % 2 = 1 THEN "w" ELSE " "]

CardTexts ==
    {Null, Text(<<>>), Text(<<"w", " ", "(", "r", ")">>), Text(ManyWords)}

\* The cards table of a snapshot: NCards rows with distinct uuids.
CardTables ==
    {[i \in 1..NCards |-> [uuid |-> i, text |-> f[i]]] :
        f \in [1..NCards -> CardTexts]}

\* ------------------------------------------------------------------ files
NoFile == [exists |-> FALSE]

File(d) == [exists |-> TRUE, data |-> d]

\* The sqlite database bunzip2 expands from the archive published under
\* checksum c: the snapshot's cards table, without twentyword_cards.
Database(c, snapshot) ==
    [src |-> c, cards |-> snapshot, has_table |-> FALSE, twentyword_cards |-> {}]

\* TRUE iff the file holds a complete archive bunzip2 can expand.
IsArchive(f) == f.exists /\ \E c \in Checksums : f.data = Body(c)

ArchiveSum(f) == CHOOSE c \in Checksums : f.data = Body(c)

VARIABLES
    pc,                \* position of the current run
    combsum_file,      \* the recorded checksum file
    asset_file,        \* the cached compressed asset
    asset_uncompressed,\* asset_file + ".out", the sqlite database
    fetched_checksum,  \* _asset_needs_refresh: fetched_checksum
    nr_checksum,       \* nr_checksum
    cs_status,         \* cs_res.status_code
    asset_status,      \* status of the streamed asset response
    stream,            \* chunks of the response not yet received
    cursor,            \* index of the next row of the cards cursor
    err,               \* the error that ended the run
    returned,          \* http_get_path_cached_checksummed has returned
    downloads,         \* asset requests issued by this run
    pre,               \* the cache files as the run found them
    prev,              \* how the previous run ended
    runs,              \* runs started so far
    input,             \* arguments of the function applied on its own
    output             \* its result

vars == <<pc, combsum_file, asset_file, asset_uncompressed, fetched_checksum,
          nr_checksum, cs_status, asset_status, stream, cursor, err, returned,
          downloads, pre, prev, runs, input, output>>

files == <<combsum_file, asset_file, asset_uncompressed>>

\* The state of the pipeline, without input and output.
pipeline == <<pc, combsum_file, asset_file, asset_uncompressed, fetched_checksum,
              nr_checksum, cs_status, asset_status, stream, cursor, err,
              returned, downloads, pre, prev, runs>>

\* Nothing has run yet and the cache directory is empty.
PipelineInit ==
    /\ pc = "idle"
    /\ combsum_file = NoFile
    /\ asset_file = NoFile
    /\ asset_uncompressed = NoFile
    /\ fetched_checksum = None
    /\ nr_checksum = None
    /\ cs_status = 0
    /\ asset_status = 0
    /\ stream = <<>>
    /\ cursor = 0
    /\ err = None
    /\ returned = FALSE
    /\ downloads = 0
    /\ pre = [cs |-> NoFile, asset |-> NoFile, out |-> NoFile]
    /\ prev = [returned |-> FALSE, sum |-> None]
    /\ runs = 0

Init ==
    /\ PipelineInit
    /\ input = None
    /\ output = None

\* asyncio.run(main()): a new run of the pipeline starts.
StartRun ==
    /\ pc \in {"idle", "done", "failed"}
    /\ runs < MaxRuns
    /\ runs' = runs + 1
    /\ pc' = "get_checksum"
    /\ pre' = [cs |-> combsum_file, asset |-> asset_file, out |-> asset_uncompressed]
    /\ prev' = [returned |-> returned, sum |-> fetched_checksum]
    /\ fetched_checksum' = None
    /\ nr_checksum' = None
    /\ cs_status' = 0
    /\ asset_status' = 0
    /\ stream' = <<>>
    /\ cursor' = 0
    /\ err' = None
    /\ returned' = FALSE
    /\ downloads' = 0
    /\ UNCHANGED <<files, input, output>>

\* The run ends with an exception.
Raise(e) ==
    /\ pc' = "failed"
    /\ err' = e

\* Mutant of RaisesForStatus: the status check is missing.
RaisesForStatusNever(status) == FALSE

\* "if cs_res.status_code != 200: raise"
RaisesForStatus(status) == status # 200

\* _get_current_checksum
GetCurrentChecksum ==
    /\ pc = "get_checksum"
    /\ \E status \in StatusCodes, c \in Checksums :
        /\ cs_status' = status
        /\ IF RaisesForStatus(status)
           THEN /\ Raise("RemoteUnavailable")
                /\ UNCHANGED fetched_checksum
           ELSE /\ fetched_checksum' = ChecksumResponse(status, c)
                /\ pc' = "needs_refresh"
                /\ UNCHANGED err
    /\ UNCHANGED <<files, nr_checksum, asset_status, stream, cursor, returned,
                   downloads, pre, prev, runs, input, output>>

\* Mutant of NeedsRefresh: the recorded checksum is not compared.
NeedsRefreshAlways(fetched, asset, combsum) == fetched

\* The value _asset_needs_refresh returns.
NeedsRefresh(fetched, asset, combsum) ==
    IF asset.exists /\ combsum.exists /\ fetched = combsum.data
    THEN None
    ELSE fetched

\* "if nr_checksum:" Python truthiness of an Optional[str].
TruthyStr(x) == x # None /\ x # ""

\* nr_checksum = await _asset_needs_refresh(); if nr_checksum: ... else
\* return asset_file
AssetNeedsRefresh ==
    /\ pc = "needs_refresh"
    /\ nr_checksum' = NeedsRefresh(fetched_checksum, asset_file, combsum_file)
    /\ IF TruthyStr(nr_checksum')
       THEN pc' = "open_checksum" /\ UNCHANGED returned
       ELSE pc' = "returned" /\ returned' = TRUE
    /\ UNCHANGED <<files, fetched_checksum, cs_status, asset_status, stream,
                   cursor, err, downloads, pre, prev, runs, input, output>>

\* open(combsum_file, "w+"): the file is created or truncated.
OpenChecksum ==
    /\ pc = "open_checksum"
    /\ combsum_file' = File("")
    /\ pc' = "write_checksum"
    /\ UNCHANGED <<asset_file, asset_uncompressed, fetched_checksum, nr_checksum,
                   cs_status, asset_status, stream, cursor, err, returned,
                   downloads, pre, prev, runs, input, output>>

\* cs_w.write(nr_checksum), flushed as the with block closes the file.
WriteChecksum ==
    /\ pc = "write_checksum"
    /\ combsum_file' = File(nr_checksum)
    /\ pc' = "open_asset"
    /\ UNCHANGED <<asset_file, asset_uncompressed, fetched_checksum, nr_checksum,
                   cs_status, asset_status, stream, cursor, err, returned,
                   downloads, pre, prev, runs, input, output>>

\* open(asset_file, "wb+"): the file is created or truncated.
OpenAsset ==
    /\ pc = "open_asset"
    /\ asset_file' = File(<<>>)
    /\ pc' = "request"
    /\ UNCHANGED <<combsum_file, asset_uncompressed, fetched_checksum, nr_checksum,
                   cs_status, asset_status, stream, cursor, err, returned,
                   downloads, pre, prev, runs, input, output>>

\* client.stream("GET", asset_url): the response arrives; its status is
\* not looked at.
Request ==
    /\ pc = "request"
    /\ \E status \in StatusCodes :
        /\ asset_status' = status
        /\ stream' = ResponseBody(status, fetched_checksum)
    /\ downloads' = downloads + 1
    /\ pc' = "streaming"
    /\ UNCHANGED <<files, fetched_checksum, nr_checksum, cs_status, cursor, err,
                   returned, pre, prev, runs, input, output>>

\* as_w.write(chunk) for the next chunk of the body.
WriteChunk ==
    /\ pc = "streaming"
    /\ stream # <<>>
    /\ asset_file' = File(asset_file.data \o <<Head(stream)>>)
    /\ stream' = Tail(stream)
    /\ UNCHANGED <<pc, combsum_file, asset_uncompressed, fetched_checksum,
                   nr_checksum, cs_status, asset_status, cursor, err, returned,
                   downloads, pre, prev, runs, input, output>>

\* The body is exhausted: return asset_file.
StreamEnd ==
    /\ pc = "streaming"
    /\ stream = <<>>
    /\ pc' = "returned"
    /\ returned' = TRUE
    /\ UNCHANGED <<files, fetched_checksum, nr_checksum, cs_status, asset_status,
                   stream, cursor, err, downloads, pre, prev, runs, input, output>>

\* A network error while requesting or streaming the body: httpx raises
\* (at "request" the GET was sent and no response arrived).
FetchFail ==
    /\ pc \in {"request", "streaming"}
    /\ Raise("FetchFailed")
    /\ downloads' = IF pc = "request" THEN downloads + 1 ELSE downloads
    /\ UNCHANGED <<files, fetched_checksum, nr_checksum, cs_status, asset_status,
                   stream, cursor, returned, pre, prev, runs, input, output>>

\* mtgjson_sqlite_path: "if not asset_uncompressed.exists():"
CheckUncompressed ==
    /\ pc = "returned"
    /\ pc' = IF asset_uncompressed.exists THEN "create_table" ELSE "bunzip2"
    /\ UNCHANGED <<files, fetched_checksum, nr_checksum, cs_status, asset_status,
                   stream, cursor, err, returned, downloads, pre, prev, runs, input, output>>

\* subprocess.run(["bunzip2", "-k", asset_path]): a complete archive is
\* expanded to asset_path + ".out" (the snapshot's content is the
\* publisher's choice); anything else makes bunzip2 exit non-zero and
\* leave no output.
Bunzip2 ==
    /\ pc = "bunzip2"
    /\ IF IsArchive(asset_file)
       THEN /\ \E snapshot \in CardTables :
                 asset_uncompressed' = File(Database(ArchiveSum(asset_file), snapshot))
            /\ pc' = "create_table"
            /\ UNCHANGED err
       ELSE /\ Raise("DecompressionFailed")
            /\ UNCHANGED asset_uncompressed
    /\ UNCHANGED <<combsum_file, asset_file, fetched_checksum, nr_checksum,
                   cs_status, asset_status, stream, cursor, returned, downloads,
                   pre, prev, runs, input, output>>

\* main: "create table if not exists twentyword_cards", commit, and the
\* cursor over cards is opened.
CreateTable ==
    /\ pc = "create_table"
    /\ asset_uncompressed' =
           File([asset_uncompressed.data EXCEPT !.has_table = TRUE])
    /\ cursor' = 1
    /\ pc' = "rows"
    /\ UNCHANGED <<combsum_file, asset_file, fetched_checksum, nr_checksum,
                   cs_status, asset_status, stream, err, returned, downloads,
                   pre, prev, runs, input, output>>

\* Mutant of ProcessedRow: only legal cards are stored.
ProcessedRowLegalOnly(tw, row) ==
    IF Truthy(SqlText(row.text)) /\ ClassifiedRow(row.uuid, SqlText(row.text)).legal
    THEN Upsert(tw, ClassifiedRow(row.uuid, SqlText(row.text)))
    ELSE tw

\* The table after the loop body has run for one row of the cursor.
ProcessedRow(tw, row) ==
    IF Truthy(SqlText(row.text))
    THEN Upsert(tw, ClassifiedRow(row.uuid, SqlText(row.text)))
    ELSE tw

\* One iteration of "async for row in cursor".
ProcessRow ==
    /\ pc = "rows"
    /\ cursor <= Len(asset_uncompressed.data.cards)
    /\ asset_uncompressed' =
           File([asset_uncompressed.data EXCEPT !.twentyword_cards =
                    ProcessedRow(@, asset_uncompressed.data.cards[cursor])])
    /\ cursor' = cursor + 1
    /\ UNCHANGED <<pc, combsum_file, asset_file, fetched_checksum, nr_checksum,
                   cs_status, asset_status, stream, err, returned, downloads,
                   pre, prev, runs, input, output>>

\* db.execute / db.commit of the upsert raises: the run aborts.
UpsertFail ==
    /\ pc = "rows"
    /\ cursor <= Len(asset_uncompressed.data.cards)
    /\ Truthy(SqlText(asset_uncompressed.data.cards[cursor].text))
    /\ Raise("PersistenceFailure")
    /\ UNCHANGED <<files, fetched_checksum, nr_checksum, cs_status, asset_status,
                   stream, cursor, returned, downloads, pre, prev, runs, input, output>>

\* The cursor is exhausted: the counts are printed and main returns.
Finish ==
    /\ pc = "rows"
    /\ cursor > Len(asset_uncompressed.data.cards)
    /\ pc' = "done"
    /\ UNCHANGED <<files, fetched_checksum, nr_checksum, cs_status, asset_status,
                   stream, cursor, err, returned, downloads, pre, prev, runs, input, output>>

\* The process is killed in the middle of a run.
Crash ==
    /\ pc \notin {"idle", "done", "failed"}
    /\ Raise("Crash")
    /\ UNCHANGED <<files, fetched_checksum, nr_checksum, cs_status, asset_status,
                   stream, cursor, returned, downloads, pre, prev, runs, input, output>>

Next ==
    \/ StartRun
    \/ GetCurrentChecksum
    \/ AssetNeedsRefresh
    \/ OpenChecksum
    \/ WriteChecksum
    \/ OpenAsset
    \/ Request
    \/ WriteChunk
    \/ StreamEnd
    \/ FetchFail
    \/ CheckUncompressed
    \/ Bunzip2
    \/ CreateTable
    \/ ProcessRow
    \/ UpsertFail
    \/ Finish
    \/ Crash

Spec == Init /\ [][Next]_vars

\* ----------------------------------------------------------------- claims
\* The asset file holds the complete archive published under checksum c.
HoldsAssetOf(f, c) == f = File(Body(c))

\* Rows of the table tw for one card identifier.
RowsOf(tw, uuid) == {r \in tw : r.card_uuid = uuid}

\* The database file of the current run, once it exists.
cards == asset_uncompressed.data.cards

twentyword_cards == asset_uncompressed.data.twentyword_cards

\* twentyword_cards as the run found it (empty when the database or the
\* table did not exist yet).
TableAtStart == IF pre.out.exists THEN pre.out.data.twentyword_cards ELSE {}

\* C1: after a run that failed during the asset download, a recorded
\* checksum always has its complete asset beside it; and a run that skips
\* the download returns the complete asset of the checksum it fetched.
\* (The code writes the checksum before the body: violated.)
C1_ChecksumNeverAheadOfAsset ==
    /\ (pc = "failed" /\ err = "FetchFailed" /\ combsum_file.exists)
          => HoldsAssetOf(asset_file, combsum_file.data)
    /\ (pc = "returned" /\ downloads = 0 /\ nr_checksum = None
            /\ fetched_checksum = combsum_file.data)
          => HoldsAssetOf(asset_file, fetched_checksum)

\* C2: after a failed asset download the checksum file and the asset file
\* are as the run found them.  (The code has already overwritten the
\* checksum file and truncated the asset file: violated.)
C2_FetchFailedLeavesCache ==
    (pc = "failed" /\ err = "FetchFailed")
        => /\ combsum_file = pre.cs
           /\ asset_file = pre.asset

\* C3: once the asset endpoint has answered with a non-success status,
\* nothing of the response body is stored in the asset file and the run
\* gets no further than the response: it neither returns the asset nor
\* decompresses.  (The code never looks at the status: violated.)
C3_NonSuccessAssetIsFatal ==
    (asset_status # 0 /\ asset_status # 200)
        => /\ pc \in {"streaming", "failed"}
           /\ asset_file = File(<<>>)

\* C4: when mtgjson_sqlite_path returns and the cache holds the complete
\* asset of the recorded checksum, the decompressed file was expanded from
\* that asset.  (The code never invalidates the decompressed file:
\* violated.)
C4_DecompressedIsCurrent ==
    (pc = "create_table" /\ combsum_file.exists
        /\ HoldsAssetOf(asset_file, combsum_file.data))
        => asset_uncompressed.data.src = combsum_file.data

\* C5: when http_get_path_cached_checksummed returns, it has skipped the
\* download exactly if the asset file and the checksum file both existed
\* and the fetched checksum equalled the recorded one.  (An empty
\* checksum body also skips the download: violated.)
C5_SkipOnlyOnMatch ==
    pc = "returned"
        => (downloads = 0 <=>
               /\ pre.asset.exists
               /\ pre.cs.exists
               /\ fetched_checksum = pre.cs.data)

\* C6: if the previous run got its asset (http_get_path_cached_checksummed
\* returned) and this run fetched the same checksum, this run issues no
\* asset request and the checksum file and the asset file stay as the run
\* found them.
C6_SecondRunDownloadsNothing ==
    (prev.returned /\ fetched_checksum # None /\ fetched_checksum = prev.sum)
        => /\ downloads = 0
           /\ combsum_file = pre.cs
           /\ asset_file = pre.asset

C6_Witness ==
    /\ pc = "done"
    /\ prev.returned
    /\ fetched_checksum = prev.sum
    /\ fetched_checksum = "c1"
    /\ HoldsAssetOf(asset_file, "c1")

\* C7: a run that found a recorded checksum different from the remote one
\* and completed has downloaded once, the asset file holds the downloaded
\* body and the checksum file holds the remote checksum.  (With an empty
\* remote checksum nothing is downloaded, see C5: violated.)
C7_RefreshOverwrites ==
    (pc = "done" /\ pre.cs.exists /\ pre.cs.data # fetched_checksum)
        => /\ downloads = 1
           /\ asset_file = File(ResponseBody(asset_status, fetched_checksum))
           /\ combsum_file = File(fetched_checksum)

\* C8: once the checksum endpoint has answered with a non-success status
\* the run has failed, has issued no asset request, and the checksum file,
\* the asset file and the decompressed file are as the run found them.
C8_ChecksumFailureTouchesNothing ==
    (cs_status # 0 /\ cs_status # 200)
        => /\ pc = "failed"
           /\ err = "RemoteUnavailable"
           /\ downloads = 0
           /\ combsum_file = pre.cs
           /\ asset_file = pre.asset
           /\ asset_uncompressed = pre.out

C8_Witness ==
    /\ cs_status = 503
    /\ pc = "failed"
    /\ pre.cs.exists
    /\ HoldsAssetOf(pre.asset, pre.cs.data)
    /\ pre.out.exists

\* C9 as stated: after a complete run every card with non-null text has
\* exactly one row in twentyword_cards.  (A card whose text is the empty
\* string has none: violated.)
C9_NonNullHasOneRow ==
    pc = "done"
        => \A i \in 1..Len(cards) :
               ~cards[i].text.null
                   => Cardinality(RowsOf(twentyword_cards, cards[i].uuid)) = 1

\* C9 amended: after a complete run every card whose text is neither null
\* nor empty has exactly one row in twentyword_cards.
C9_NonEmptyHasOneRow ==
    pc = "done"
        => \A i \in 1..Len(cards) :
               (~cards[i].text.null /\ cards[i].text.str # <<>>)
                   => Cardinality(RowsOf(twentyword_cards, cards[i].uuid)) = 1

C9_Witness ==
    /\ pc = "done"
    /\ \E i, j \in 1..Len(cards) :
        /\ cards[i].text = Text(ManyWords)
        /\ cards[j].text = Text(<<>>)
        /\ Cardinality(RowsOf(twentyword_cards, cards[i].uuid)) = 1

\* C10: a card whose text is null or empty is skipped: once the cursor
\* has passed it, the table holds for it exactly the rows the run found
\* (none, when the run found none).
C10_NullOrEmptySkipped ==
    pc \in {"rows", "done"}
        => \A i \in 1..Len(cards) :
               (i < cursor /\ (cards[i].text.null \/ cards[i].text.str = <<>>))
                   => RowsOf(twentyword_cards, cards[i].uuid)
                          = RowsOf(TableAtStart, cards[i].uuid)

C10_Witness ==
    /\ pc = "done"
    /\ \E i, j \in 1..Len(cards) :
        /\ cards[i].text = Text(<<>>)
        /\ RowsOf(twentyword_cards, cards[i].uuid) = {}
        /\ RowsOf(twentyword_cards, cards[j].uuid) # {}

\* ------------------------------------------------- the upsert on its own
\* Parameter tuples the insert statement can be executed with: any flag,
\* text and word count for each card identifier.
UpsertRows ==
    {[card_uuid |-> u, legal |-> l, legality_checked_text |-> t, num_words |-> n] :
        u \in 1..NCards, l \in BOOLEAN, t \in {<<"w">>, <<"w", " ", "w">>},
        n \in {1, 2}}

\* input: the parameter tuples executed so far; output: the table, and
\* the table as it was before the last statement.
InitUpsert ==
    /\ PipelineInit
    /\ input = <<>>
    /\ output = [table |-> {}, before |-> {}]

\* db.execute("insert into twentyword_cards values (?, ?, ?, ?) on
\* conflict ...", row); db.commit()
UpsertRow ==
    /\ Len(input) < MaxUpserts
    /\ \E row \in UpsertRows :
        /\ input' = Append(input, row)
        /\ output' = [table |-> Upsert(output.table, row), before |-> output.table]
    /\ UNCHANGED pipeline

NextUpsert == UpsertRow

SpecUpsert == InitUpsert /\ [][NextUpsert]_vars

\* Indices of the statements executed for one card identifier.
UpsertsOf(uuid) == {k \in 1..Len(input) : input[k].card_uuid = uuid}

LastUpsertOf(uuid) ==
    input[CHOOSE k \in UpsertsOf(uuid) : \A j \in UpsertsOf(uuid) : j <= k]

\* C11: after any sequence of upserts the table holds, for each card
\* identifier, no row if none was upserted and otherwise exactly the row
\* of the last upsert for it; the last upsert left the rows of every other
\* identifier as they were.
C11_UpsertKeyedOverwrite ==
    /\ \A u \in 1..NCards :
        RowsOf(output.table, u) =
            IF UpsertsOf(u) = {} THEN {} ELSE {LastUpsertOf(u)}
    /\ input # <<>> =>
        \A u \in 1..NCards :
            u # input[Len(input)].card_uuid
                => RowsOf(output.table, u) = RowsOf(output.before, u)

\* The same identifier was upserted twice with different flag, text and
\* word count, and another identifier has a row.
C11_Witness ==
    /\ Len(input) = 3
    /\ input[1].card_uuid = input[3].card_uuid
    /\ input[2].card_uuid # input[1].card_uuid
    /\ input[1].legal # input[3].legal
    /\ input[1].num_words # input[3].num_words
    /\ input[1].legality_checked_text # input[3].legality_checked_text
    /\ Cardinality(output.table) = 2

\* ------------------------------------- the loop body on one text, on its own
\* What a card text is put together from: a letter, the kinds of
\* whitespace, the parentheses, the SQL newline escape and the filter
\* phrase.
Pieces ==
    {<<"w">>, <<" ">>, <<"\n">>, <<"(">>, <<")">>, <<"\\", "n">>,
     FILTER_STRINGS[1]}

\* Every text of at most n pieces.
RECURSIVE PieceTexts(_)
PieceTexts(n) ==
    IF n = 0 THEN {<<>>}
    ELSE LET shorter == PieceTexts(n - 1)
         IN  shorter \cup {t \o p : t \in shorter, p \in Pieces}

\* k words separated by single spaces.
Words(k) == [i \in 1..(2 * k - 1) |-> IF i % 2 = 1 THEN "w" ELSE " "]

\* The texts the loop body is applied to: NULL, every text of at most
\* MaxPieces pieces, and the texts around the legality threshold.
TextInputs ==
    {Null} \cup {Text(t) : t \in PieceTexts(MaxPieces)}
           \cup {Text(Words(k)) : k \in (TWENTY - 1)..(TWENTY + 1)}

\* input: the text column of one row of cards; output: what the loop body
\* made of it.
InitText ==
    /\ PipelineInit
    /\ input \in TextInputs
    /\ output = [done |-> FALSE]

\* The loop body for a row whose text is truthy.
ClassifyText ==
    /\ ~output.done
    /\ Truthy(SqlText(input))
    /\ output' = [done |-> TRUE, skipped |-> FALSE,
                  row |-> ClassifiedRow(1, SqlText(input))]
    /\ UNCHANGED <<pipeline, input>>

\* The loop body for a row whose text is None or empty: nothing.
SkipText ==
    /\ ~output.done
    /\ ~Truthy(SqlText(input))
    /\ output' = [done |-> TRUE, skipped |-> TRUE]
    /\ UNCHANGED <<pipeline, input>>

NextText == ClassifyText \/ SkipText

SpecText == InitText /\ [][NextText]_vars

\* The loop body has classified the text.
Classified == output.done /\ ~output.skipped

\* The list s.split(" ") returns.
RECURSIVE SplitOnSpace(_)
SplitOnSpace(s) ==
    IF \A i \in 1..Len(s) : s[i] # " " THEN <<s>>
    ELSE LET i == CHOOSE i \in 1..Len(s) :
                     s[i] = " " /\ \A j \in 1..(i - 1) : s[j] # " "
         IN  <<SubSeq(s, 1, i - 1)>> \o SplitOnSpace(SubSeq(s, i + 1, Len(s)))

\* C12: the word count of a classified text is the number of tokens its
\* normalized text splits into on single spaces (one for the empty text),
\* and legal is true exactly if that count is at most 20: 20 tokens are
\* legal, 21 are not.
C12_WordCountAndThreshold ==
    Classified =>
        LET tokens == SplitOnSpace(output.row.legality_checked_text)
        IN  /\ output.row.num_words = Len(tokens)
            /\ output.row.legal <=> (Len(tokens) <= 20)
            /\ Len(tokens) = 20 => output.row.legal
            /\ Len(tokens) = 21 => ~output.row.legal
            /\ output.row.legality_checked_text = <<>> => output.row.num_words = 1

C12_Witness ==
    /\ Classified
    /\ Len(SplitOnSpace(output.row.legality_checked_text)) = 20
    /\ output.row.num_words = 20
    /\ output.row.legal

\* ------------------------------------------------------------ the counts
\* Mutant of JoinCount: cards without a row fall into the illegal bucket.
JoinCountUnmatched(db, flag) ==
    Cardinality({p \in (1..Len(db.cards)) \X db.twentyword_cards :
                    db.cards[p[1]].uuid = p[2].card_uuid /\ p[2].legal = flag})
    + (IF flag THEN 0
       ELSE Cardinality({i \in 1..Len(db.cards) :
                \A r \in db.twentyword_cards : r.card_uuid # db.cards[i].uuid}))

\* "select count(*) from cards left join twentyword_cards where cards.uuid
\* = twentyword_cards.card_uuid and twentyword_cards.legal = ?": the join
\* has no ON clause, so every card is paired with every row, and the
\* WHERE clause keeps the pairs of equal identifier and the given flag.
JoinCount(db, flag) ==
    Cardinality({p \in (1..Len(db.cards)) \X db.twentyword_cards :
                    db.cards[p[1]].uuid = p[2].card_uuid /\ p[2].legal = flag})

\* legal_count and illegal_count, as main prints them and as
\* twentywordmagic_count adds them up for "total".
LegalCount(db) == JoinCount(db, TRUE)

IllegalCount(db) == JoinCount(db, FALSE)

\* C13 as stated: after a complete run that started from an empty
\* classification table, legal_count + illegal_count is the number of
\* cards with non-null text the pass went over.  (A card whose text is the
\* empty string is in neither count: violated.)
C13_CountsCoverNonNull ==
    (pc = "done" /\ TableAtStart = {})
        => LegalCount(asset_uncompressed.data) + IllegalCount(asset_uncompressed.data)
              = Cardinality({i \in 1..Len(cards) : ~cards[i].text.null})

\* C13 amended: after a complete run that started from an empty
\* classification table, legal_count + illegal_count is the number of
\* cards whose text is neither null nor empty.
C13_CountsCoverNonEmpty ==
    (pc = "done" /\ TableAtStart = {})
        => LegalCount(asset_uncompressed.data) + IllegalCount(asset_uncompressed.data)
              = Cardinality({i \in 1..Len(cards) :
                                ~cards[i].text.null /\ cards[i].text.str # <<>>})

\* A complete run over a null text and a text of 21 words.
C13_Witness ==
    /\ pc = "done"
    /\ TableAtStart = {}
    /\ \E i \in 1..Len(cards) : cards[i].text.null
    /\ LegalCount(asset_uncompressed.data) = 0
    /\ IllegalCount(asset_uncompressed.data) = 1

\* ------------------------------------------------- the cache file names
\* Characters of a URL, and the URLs of at most n characters.
UrlChars == {"a", "b"}

RECURSIVE UrlsUpTo(_)
UrlsUpTo(n) ==
    IF n = 0 THEN {<<>>}
    ELSE LET shorter == UrlsUpTo(n - 1)
         IN  shorter \cup {u \o <<c>> : u \in shorter, c \in UrlChars}

Urls == UrlsUpTo(MaxUrlLen) \ {<<>>}

\* str.encode("utf-8") of these characters: one byte each.
Utf8(c) == IF c = "a" THEN 97 ELSE 98

Encode(url) == [i \in 1..Len(url) |-> Utf8(url[i])]

\* hashlib.sha224(data).hexdigest(), taken to be free of collisions: the
\* digest stands for exactly the bytes hashed.
Sha224Hex(data) == [sha224 |-> data]

\* f".{digest}{suffix}"
DotName(digest, suffix) == [dot |-> ".", digest |-> digest, suffix |-> suffix]

\* combsum_file and asset_file for a pair of URLs (names within parent).
CacheNames(asset_url, checksum_url) ==
    LET comb_shasum == Sha224Hex(Encode(asset_url) \o Encode(checksum_url))
    IN  [combsum_file |-> DotName(comb_shasum, ".checksum"),
         asset_file   |-> DotName(comb_shasum, "")]

\* input: two (asset URL, checksum URL) pairs; output: the file names the
\* function derives for each.
InitNames ==
    /\ PipelineInit
    /\ input \in [a : Urls \X Urls, b : Urls \X Urls]
    /\ output = [done |-> FALSE]

\* The head of http_get_path_cached_checksummed, for both pairs.
ComputeNames ==
    /\ ~output.done
    /\ output' = [done |-> TRUE,
                  a |-> CacheNames(input.a[1], input.a[2]),
                  b |-> CacheNames(input.b[1], input.b[2])]
    /\ UNCHANGED <<pipeline, input>>

NextNames == ComputeNames

SpecNames == InitNames /\ [][NextNames]_vars

\* C14: equal (asset URL, checksum URL) pairs get equal file names, and
\* distinct pairs share no file name.  (The two URLs are concatenated
\* without a separator before hashing, so ("a", "ba") and ("ab", "a") hash
\* the same bytes: violated.)
C14_NamesSeparatePairs ==
    output.done =>
        /\ input.a = input.b => output.a = output.b
        /\ input.a # input.b =>
              {output.a.combsum_file, output.a.asset_file}
                  \cap {output.b.combsum_file, output.b.asset_file} = {}

\* ------------------------------------ passes under changing filter phrases
\* The loop body with FILTER_STRINGS as the version of the program that
\* runs the pass defines it.
RECURSIVE ReduceFiltersWith(_, _, _)
ReduceFiltersWith(fs, t, k) ==
    IF k > Len(fs) THEN t
    ELSE ReduceFiltersWith(fs, Replace(t, fs[k], <<>>), k + 1)

TextFilteredWith(fs, text) ==
    Strip(ReduceFiltersWith(fs, TextRmReminderText(text), 1))

ClassifiedRowWith(fs, uuid, text) ==
    LET tf == TextFilteredWith(fs, text.str)
        n  == NumWords(tf)
    IN  [card_uuid |-> uuid, legal |-> (n <= TWENTY),
         legality_checked_text |-> tf, num_words |-> n]

ProcessedRowWith(fs, tw, row) ==
    IF Truthy(SqlText(row.text))
    THEN Upsert(tw, ClassifiedRowWith(fs, row.uuid, SqlText(row.text)))
    ELSE tw

\* The filter phrase lists of the versions of the program.
FilterLists == {<<>>, FILTER_STRINGS, FILTER_STRINGS \o << <<"w">> >>}

\* The cards tables the passes go over.
RerunTexts ==
    {Null, Text(<<>>), Text(<<"w", " ", "F", " ", "G">>), Text(<<"w", " ", "x">>)}

RerunTables ==
    {[i \in 1..NCards |-> [uuid |-> i, text |-> f[i]]] :
        f \in [1..NCards -> RerunTexts]}

\* input: the cards snapshot, the filter phrases of this pass and of the
\* pass before, and the number of passes; output: twentyword_cards and the
\* position of the pass.
InitRerun ==
    /\ PipelineInit
    /\ \E snapshot \in RerunTables :
        input = [cards |-> snapshot, filters |-> <<>>, before |-> <<>>, passes |-> 0]
    /\ output = [table |-> {}, cursor |-> 0, running |-> FALSE]

\* main of some version of the program opens the cursor.
StartPass ==
    /\ ~output.running
    /\ input.passes < MaxRuns
    /\ \E fs \in FilterLists :
        input' = [input EXCEPT !.filters = fs, !.before = input.filters,
                               !.passes = @ + 1]
    /\ output' = [output EXCEPT !.cursor = 1, !.running = TRUE]
    /\ UNCHANGED pipeline

\* One iteration of "async for row in cursor".
PassRow ==
    /\ output.running
    /\ output.cursor <= Len(input.cards)
    /\ output' = [output EXCEPT
                    !.table = ProcessedRowWith(input.filters, @,
                                               input.cards[output.cursor]),
                    !.cursor = @ + 1]
    /\ UNCHANGED <<pipeline, input>>

\* The cursor is exhausted.
EndPass ==
    /\ output.running
    /\ output.cursor > Len(input.cards)
    /\ output' = [output EXCEPT !.running = FALSE]
    /\ UNCHANGED <<pipeline, input>>

NextRerun == StartPass \/ PassRow \/ EndPass

SpecRerun == InitRerun /\ [][NextRerun]_vars

\* The table one pass with the phrases fs makes of the table tw, from
\* row k of the cards on.
RECURSIVE PassFrom(_, _, _, _)
PassFrom(fs, snapshot, tw, k) ==
    IF k > Len(snapshot) THEN tw
    ELSE PassFrom(fs, snapshot, ProcessedRowWith(fs, tw, snapshot[k]), k + 1)

\* C15: after any sequence of complete passes over one cards snapshot,
\* each with its own filter phrases, the table is the one a single pass
\* with the last pass's phrases makes of an empty table.
C15_RerunEqualsSinglePass ==
    (~output.running /\ input.passes >= 1)
        => output.table = PassFrom(input.filters, input.cards, {}, 1)

\* A second pass, with other phrases, has changed the table the first pass
\* left.
C15_Witness ==
    /\ ~output.running
    /\ input.passes = 2
    /\ input.filters # input.before
    /\ output.table # PassFrom(input.before, input.cards, {}, 1)
    /\ output.table # {}

\* ------------------------------------------------ the phases of a run
\* The state machine's phase at each position of a run; "returned" is the
\* point between the fetch function's return and the ".out" check.
PhaseRank(p) ==
    CASE p = "idle" -> 0
      [] p \in {"get_checksum", "needs_refresh"} -> 1
      [] p \in {"open_checksum", "write_checksum", "open_asset", "request",
                "streaming"} -> 2
      [] p = "returned" -> 3
      [] p = "bunzip2" -> 4
      [] p \in {"create_table", "rows"} -> 5
      [] p \in {"done", "failed"} -> 6

Fetching == {"open_checksum", "write_checksum", "open_asset", "request", "streaming"}

Classifying == {"create_table", "rows"}

\* The phases of a step are in order, whatever "successfully" means.
C16_StepInOrder ==
    /\ pc' = "get_checksum" => pc \in {"idle", "done", "failed"}
    /\ pc \notin {"idle", "done", "failed"} => PhaseRank(pc') >= PhaseRank(pc)
    /\ (cs_status' # cs_status /\ cs_status' # 0)
          => /\ cs_status = 0
             /\ pc = "get_checksum"
             /\ files = <<pre.cs, pre.asset, pre.out>>
    /\ pc' \notin {"idle", "get_checksum", "failed"} => cs_status' = 200
    /\ files' # files => cs_status = 200
    /\ pc' \in Fetching => TruthyStr(nr_checksum')
    /\ pc' = "bunzip2" => ~asset_uncompressed'.exists
    /\ pc' \in Classifying
          => /\ returned'
             /\ stream' = <<>>
             /\ asset_uncompressed'.exists
    /\ pc' = "done" => cursor' > Len(cards')

\* C16: every run goes through Idle, CheckingChecksum, Fetching,
\* Decompressing, Classifying, Done in this order: the checksum endpoint
\* is queried once and before any cache file is written, Fetching only
\* follows a signalled refresh, Decompressing only a missing ".out",
\* Classifying only starts when the fetch (if there was one) has received
\* the whole body of a success response and the ".out" exists, and Done is
\* only reached past the last card.
C16_PhasesInOrder ==
    [][/\ C16_StepInOrder
       /\ (pc' \in Classifying /\ downloads' > 0) => asset_status' = 200]_vars

\* ------------------------------------------------- rows of the table
\* A row whose columns agree with each other.
SelfConsistent(r) ==
    /\ r.num_words = Len(SplitOnSpace(r.legality_checked_text))
    /\ r.legal <=> (r.num_words <= 20)

\* C17: whenever the database exists, also during a run and after a run
\* that aborted part-way through the cards, the word count of every row of
\* twentyword_cards is the number of single-space-separated tokens of its
\* text and its legal flag is true exactly if the count is at most 20.
C17_RowsSelfConsistent ==
    asset_uncompressed.exists => \A r \in twentyword_cards : SelfConsistent(r)

\* A run aborted by a failed upsert after it had stored a row.
C17_Witness ==
    /\ pc = "failed"
    /\ err = "PersistenceFailure"
    /\ asset_uncompressed.exists
    /\ cursor <= Len(cards)
    /\ RowsOf(twentyword_cards, cards[cursor].uuid) = {}
    /\ \E r \in twentyword_cards : ~r.legal /\ r.num_words = TWENTY + 1

\* ------------------------------------------------------ reminder text
\* s has a "(" with a ")" somewhere after it.
HasParenthesized(s) ==
    \E i, j \in 1..Len(s) : i < j /\ s[i] = "(" /\ s[j] = ")"

\* C18: the normalized text of every input has no "(" that is followed
\* later by a ")": every substring from a "(" to the next ")" is removed,
\* whatever lies between them, including nothing.
C18_NoParenthesizedLeft ==
    Classified => ~HasParenthesized(output.row.legality_checked_text)

\* ------------------------------------------------- the text that is stored
\* The tokens of s that are words.
ActualWords(s) ==
    {i \in 1..Len(SplitOnSpace(s)) : SplitOnSpace(s)[i] # <<>>}

\* C19: the normalized text that is stored has no leading or trailing
\* whitespace and no two consecutive spaces, and when it is not empty
\* every counted token is non-empty and the stored word count is the
\* number of actual words, also when a filter phrase was removed from the
\* middle of the text.
C19_StoredTextIsTidy ==
    Classified =>
        LET t == output.row.legality_checked_text
        IN  /\ t # <<>> => ~IsSpace(t[1]) /\ ~IsSpace(t[Len(t)])
            /\ \A i \in 1..(Len(t) - 1) : ~(t[i] = " " /\ t[i + 1] = " ")
            /\ t # <<>> =>
                  /\ \A i \in 1..Len(SplitOnSpace(t)) : SplitOnSpace(t)[i] # <<>>
                  /\ output.row.num_words = Cardinality(ActualWords(t))

====
